---- MODULE Spec2Model ----
(***************************************************************************)
(* Model of rest_framework_mongoengine/utils.py: _resolve_model,           *)
(* get_field_info, is_abstract_model and get_field_kwargs.                 *)
(*                                                                         *)
(* Python values are represented as follows.                               *)
(*   - an attribute that may be None is a sequence: <<>> is None and <<v>> *)
(*     is the value v;                                                     *)
(*   - a str is a sequence of one-character strings;                       *)
(*   - a dict is a function whose DOMAIN is its key set; an OrderedDict is *)
(*     a sequence of <<key, value>> pairs in insertion order.              *)
(***************************************************************************)
EXTENDS Integers, Sequences, FiniteSets, TLC

VARIABLES pc, call, ret, registry, heap, hist, nmut

vars == <<pc, call, ret, registry, heap, hist, nmut>>

None == <<>>

Some(v) == <<v>>

IsNone(x) == x = <<>>

Val(x) == x[1]

(***************************************************************************)
(* Strings.                                                                *)
(***************************************************************************)
Upper(c) ==
  CASE c = "a" -> "A"
    [] c = "b" -> "B"
    [] c = "x" -> "X"
    [] c = "y" -> "Y"
    [] OTHER -> c

Lower(c) ==
  CASE c = "A" -> "a"
    [] c = "B" -> "b"
    [] c = "X" -> "x"
    [] c = "Y" -> "y"
    [] OTHER -> c

\* django.utils.text.capfirst: upper-case the first character only.
capfirst(s) ==
  IF s = <<>> THEN s ELSE <<Upper(s[1])>> \o SubSeq(s, 2, Len(s))

\* str.replace('_', ' ')
ReplaceUnderscore(s) == [i \in 1..Len(s) |-> IF s[i] = "_" THEN " " ELSE s[i]]

\* str.capitalize(): first character upper-cased, the rest lower-cased.
Capitalize(s) == [i \in 1..Len(s) |-> IF i = 1 THEN Upper(s[i]) ELSE Lower(s[i])]

\* rest_framework.utils.field_mapping.needs_label
needs_label(model_field, field_name) ==
  capfirst(Val(model_field.verbose_name)) # Capitalize(ReplaceUnderscore(field_name))

(***************************************************************************)
(* Python truthiness of the attribute values that the code tests with      *)
(* "if x:".                                                                *)
(***************************************************************************)
\* None and 0 are falsy, every other number is truthy.
TruthyNum(x) == ~IsNone(x) /\ Val(x) # 0

\* None and an empty str / tuple / list are falsy.
TruthySeq(x) == ~IsNone(x) /\ Val(x) # <<>>

\* None is falsy, a function object is truthy.
TruthyObj(x) == ~IsNone(x)

\* dict item assignment d[k] = v
Put(d, k, v) == [x \in (DOMAIN d) \cup {k} |-> IF x = k THEN v ELSE d[x]]

EmptyDict == [x \in {} |-> TRUE]

(***************************************************************************)
(* str(n) for an integer n, and len().                                     *)
(***************************************************************************)
DigitChar(d) ==
  CASE d = 0 -> "0" [] d = 1 -> "1" [] d = 2 -> "2" [] d = 3 -> "3"
    [] d = 4 -> "4" [] d = 5 -> "5" [] d = 6 -> "6" [] d = 7 -> "7"
    [] d = 8 -> "8" [] d = 9 -> "9"

RECURSIVE StrNat(_)
StrNat(n) == IF n < 10 THEN <<DigitChar(n)>>
             ELSE StrNat(n \div 10) \o <<DigitChar(n % 10)>>

StrInt(n) == IF n < 0 THEN <<"-">> \o StrNat(0 - n) ELSE StrNat(n)

len(s) == Len(s)

(***************************************************************************)
(* Field classes of mongoengine.fields and the isinstance tests used.      *)
(***************************************************************************)
FieldTypes == {"StringField", "IntField", "DecimalField", "SequenceField", "ListField"}

NUMERIC_FIELD_TYPES == {"IntField", "LongField", "FloatField", "DecimalField"}

IsDecimalField(f) == f.type = "DecimalField"

IsSequenceField(f) == f.type = "SequenceField"

IsStringField(f) == f.type = "StringField"

IsComplexBaseField(f) == f.type = "ListField"

IsNumericField(f) == f.type \in NUMERIC_FIELD_TYPES

DecimalFallbackDigits == 65536

\* max_digits of a decimal field (called max_length in the code)
DecimalMaxDigits(f) ==
  IF ~IsNone(f.max_value)
    THEN len(StrInt(Val(f.max_value))) + f.precision
    ELSE DecimalFallbackDigits

\* The read-only test without the db_field comparison.
IsReadOnlyField_NoIdColumn(f) == IsSequenceField(f) \/ f.primary_key

\* The condition of the read-only early return.
IsReadOnlyField(f) == IsSequenceField(f) \/ f.primary_key \/ f.db_field = "_id"

UniqueValidator(f) == [kind |-> "UniqueValidator", queryset |-> f.model, message |-> None]

\* validator_kwarg as first built from model_field.validation
InitialValidators(f) == IF TruthyObj(f.validation) THEN <<Val(f.validation)>> ELSE <<>>

\* kwargs up to (not including) the read-only test
HeadKwargs(field_name, f) ==
  LET k1 == Put(EmptyDict, "model_field", f)
      k2 == IF TruthySeq(f.verbose_name) /\ needs_label(f, field_name)
              THEN Put(k1, "label", capfirst(Val(f.verbose_name))) ELSE k1
      k3 == IF TruthySeq(f.help_text) THEN Put(k2, "help_text", Val(f.help_text)) ELSE k2
  IN  IF IsDecimalField(f)
        THEN Put(Put(k3, "decimal_places", f.precision), "max_digits", DecimalMaxDigits(f))
        ELSE k3

\* required / default / allow_null
RequiredKwargs(k, f) ==
  LET k5 == Put(k, "required", f.required)
      k6 == IF TruthyNum(f.default) THEN Put(k5, "required", FALSE) ELSE k5
      k7 == IF TruthyNum(f.default) /\ ~IsComplexBaseField(f)
              THEN Put(k6, "default", Val(f.default)) ELSE k6
  IN  IF f.null THEN Put(k7, "allow_null", TRUE) ELSE k7

\* length and value bounds
BoundsKwargs(k, f) ==
  LET k9  == IF ~IsNone(f.max_length) /\ IsStringField(f)
               THEN Put(k, "max_length", Val(f.max_length)) ELSE k
      k10 == IF ~IsNone(f.min_length) /\ IsStringField(f)
               THEN Put(k9, "min_length", Val(f.min_length)) ELSE k9
      k11 == IF ~IsNone(f.max_value) /\ IsNumericField(f)
               THEN Put(k10, "max_value", Val(f.max_value)) ELSE k10
  IN  IF ~IsNone(f.min_value) /\ IsNumericField(f)
        THEN Put(k11, "min_value", Val(f.min_value)) ELSE k11

\* The uniqueness validator put first instead of appended.
FinalValidators_UniqueFirst(f) ==
  IF f.unique THEN <<UniqueValidator(f)>> \o InitialValidators(f)
              ELSE InitialValidators(f)

\* validator_kwarg at the end of the function
FinalValidators(f) ==
  IF f.unique THEN Append(InitialValidators(f), UniqueValidator(f))
              ELSE InitialValidators(f)

\* The read-only return taken only after required, default and allow_null.
get_field_kwargs_LateReadOnly(field_name, model_field) ==
  LET k8 == RequiredKwargs(HeadKwargs(field_name, model_field), model_field)
  IN  IF IsReadOnlyField(model_field)
        THEN Put(k8, "read_only", TRUE)
        ELSE IF TruthySeq(model_field.choices)
          THEN Put(k8, "choices", Val(model_field.choices))
          ELSE LET k12 == BoundsKwargs(k8, model_field)
                   validator_kwarg == FinalValidators(model_field)
               IN  IF validator_kwarg # <<>>
                     THEN Put(k12, "validators", validator_kwarg)
                     ELSE k12

\* choices attached without returning early.
get_field_kwargs_NoChoicesReturn(field_name, model_field) ==
  LET head == HeadKwargs(field_name, model_field)
  IN  IF IsReadOnlyField(model_field)
        THEN Put(head, "read_only", TRUE)
        ELSE LET k8 == RequiredKwargs(head, model_field)
                 k8c == IF TruthySeq(model_field.choices)
                          THEN Put(k8, "choices", Val(model_field.choices)) ELSE k8
                 k12 == BoundsKwargs(k8c, model_field)
                 validator_kwarg == FinalValidators(model_field)
             IN  IF validator_kwarg # <<>>
                   THEN Put(k12, "validators", validator_kwarg)
                   ELSE k12

get_field_kwargs(field_name, model_field) ==
  LET head == HeadKwargs(field_name, model_field)
  IN  IF IsReadOnlyField(model_field)
        THEN Put(head, "read_only", TRUE)
        ELSE LET k8 == RequiredKwargs(head, model_field)
             IN  IF TruthySeq(model_field.choices)
                   THEN Put(k8, "choices", Val(model_field.choices))
                   ELSE LET k12 == BoundsKwargs(k8, model_field)
                            validator_kwarg == FinalValidators(model_field)
                        IN  IF validator_kwarg # <<>>
                              THEN Put(k12, "validators", validator_kwarg)
                              ELSE k12

(***************************************************************************)
(* Calls and their outcomes.                                               *)
(***************************************************************************)
NoRet == [kind |-> "none"]

Return(v) == [kind |-> "return", value |-> v]

Raise(e, about) == [kind |-> "raise", exc |-> e, about |-> about]

EmptyHeap == [x \in {} |-> <<>>]

(***************************************************************************)
(* Field definitions handed to get_field_kwargs.  Only a DecimalField has  *)
(* a precision.                                                            *)
(***************************************************************************)
Validation == [kind |-> "validation"]

CommonFieldDefs(types, precisions) ==
  [type : types, primary_key : BOOLEAN, db_field : {"_id", "f"},
   required : BOOLEAN, default : {None, Some(0), Some(5)}, null : BOOLEAN,
   choices : {None, Some(<<>>), Some(<<"x", "y">>)},
   max_length : {None, Some(3)}, min_length : {None, Some(1)},
   max_value : {None, Some(0 - 12), Some(0 - 5), Some(0), Some(999)},
   min_value : {None, Some(0)},
   unique : BOOLEAN, validation : {None, Some(Validation)},
   verbose_name : {None, Some(<<"a", " ", "b">>), Some(<<"x", " ", "y">>)},
   help_text : {None, Some(<<"h">>)},
   precision : precisions, model : {"Doc"}]

FieldDefs ==
  CommonFieldDefs(FieldTypes \ {"DecimalField"}, {0})
    \cup CommonFieldDefs({"DecimalField"}, {0, 2})

KwargsFieldName == <<"a", "_", "b">>

InitKwargs ==
  /\ pc = "call"
  /\ call \in [op : {"get_field_kwargs"}, field_name : {KwargsFieldName},
               model_field : FieldDefs]
  /\ ret = NoRet
  /\ registry = EmptyDict
  /\ heap = EmptyHeap
  /\ hist = <<>>
  /\ nmut = 0

GetFieldKwargs ==
  /\ pc = "call"
  /\ call.op = "get_field_kwargs"
  /\ ret' = Return(get_field_kwargs(call.field_name, call.model_field))
  /\ pc' = "done"
  /\ UNCHANGED <<call, registry, heap, hist, nmut>>

NextKwargs == GetFieldKwargs

SpecKwargs == InitKwargs /\ [][NextKwargs]_vars

KwargsDone == pc = "done" /\ call.op = "get_field_kwargs"

(***************************************************************************)
(* Properties of get_field_kwargs.                                         *)
(***************************************************************************)
KwField == call.model_field

Kw == ret.value

KwKeys == DOMAIN ret.value

\* The fields the text calls read-only: sequence field, primary key or _id.
ReadOnlyCase(f) == f.type = "SequenceField" \/ f.primary_key \/ f.db_field = "_id"

ContainerCase(f) == f.type = "ListField"

BoundKeys == {"max_length", "min_length", "max_value", "min_value", "validators"}

\* Number of decimal digits of an integer, sign not counted.
RECURSIVE DigitLength(_)
DigitLength(n) ==
  IF n < 0 THEN DigitLength(0 - n)
  ELSE IF n < 10 THEN 1 ELSE 1 + DigitLength(n \div 10)

\* C1: a field that is not read-only, is not a container field and declares a
\* default value (0 included) gets required = False and default = that value.
C1_DefaultMakesOptional ==
  (KwargsDone /\ ~ReadOnlyCase(KwField) /\ ~ContainerCase(KwField)
     /\ ~IsNone(KwField.default))
    => /\ {"required", "default"} \subseteq KwKeys
       /\ Kw.required = FALSE
       /\ Kw.default = Val(KwField.default)

\* C2 as stated: a primary-key field of any type yields exactly model_field and
\* read_only = True, plus at most label and help_text.
C2_PrimaryKeyKeysOriginal ==
  (KwargsDone /\ KwField.primary_key)
    => /\ KwKeys \ {"label", "help_text"} = {"model_field", "read_only"}
       /\ Kw.read_only = TRUE

\* C2 amended: a primary-key field yields exactly model_field and
\* read_only = True, plus at most label and help_text, plus decimal_places and
\* max_digits exactly when the field is a decimal field.
C2_PrimaryKeyKeys ==
  (KwargsDone /\ KwField.primary_key)
    => /\ KwKeys \ {"label", "help_text"} =
            {"model_field", "read_only"}
              \cup (IF KwField.type = "DecimalField"
                      THEN {"decimal_places", "max_digits"} ELSE {})
       /\ Kw.read_only = TRUE
       /\ Kw.model_field = KwField

C2_Witness ==
  /\ KwargsDone /\ KwField.primary_key /\ KwField.type = "DecimalField"
  /\ KwField.required /\ ~IsNone(KwField.max_value) /\ KwField.unique
  /\ {"label", "help_text", "max_digits"} \subseteq KwKeys

\* C3: a field with non-empty choices that is not read-only yields choices and
\* none of max_length, min_length, max_value, min_value, validators.
C3_ChoicesShortCircuit ==
  (KwargsDone /\ TruthySeq(KwField.choices) /\ ~ReadOnlyCase(KwField))
    => /\ "choices" \in KwKeys
       /\ Kw.choices = Val(KwField.choices)
       /\ KwKeys \cap BoundKeys = {}

C3_Witness ==
  /\ KwargsDone /\ TruthySeq(KwField.choices) /\ ~ReadOnlyCase(KwField)
  /\ KwField.type = "StringField" /\ KwField.unique
  /\ ~IsNone(KwField.max_length) /\ ~IsNone(KwField.validation)
  /\ "choices" \in KwKeys

\* C6: for a decimal field decimal_places is the precision and max_digits is
\* the number of digits of the declared max value plus the precision, or 65536
\* when no max value is declared.
C6_DecimalDigits ==
  (KwargsDone /\ KwField.type = "DecimalField")
    => /\ {"decimal_places", "max_digits"} \subseteq KwKeys
       /\ Kw.decimal_places = KwField.precision
       /\ Kw.max_digits =
            IF IsNone(KwField.max_value) THEN 65536
            ELSE DigitLength(Val(KwField.max_value)) + KwField.precision

\* C7 as stated: every unique string field without choices and without default
\* gets a validators list of length 1 holding a uniqueness validator.
C7_UniqueValidatorOriginal ==
  (KwargsDone /\ KwField.type = "StringField" /\ KwField.unique
     /\ IsNone(KwField.choices) /\ IsNone(KwField.default))
    => /\ "validators" \in KwKeys
       /\ Len(Kw.validators) = 1
       /\ Kw.validators[1].kind = "UniqueValidator"

\* C7 amended: a unique string field without choices and without default that
\* is not read-only gets a validators list that ends with exactly one
\* uniqueness validator, preceded by the field's validation function when one
\* is declared; the list has length 1 when none is declared.
C7_UniqueValidator ==
  (KwargsDone /\ KwField.type = "StringField" /\ KwField.unique
     /\ IsNone(KwField.choices) /\ IsNone(KwField.default)
     /\ ~ReadOnlyCase(KwField))
    => /\ "validators" \in KwKeys
       /\ Len(Kw.validators) = (IF IsNone(KwField.validation) THEN 1 ELSE 2)
       /\ Kw.validators[Len(Kw.validators)].kind = "UniqueValidator"
       /\ ~IsNone(KwField.validation) => Kw.validators[1] = Val(KwField.validation)

C7_Witness ==
  /\ KwargsDone /\ KwField.type = "StringField" /\ KwField.unique
  /\ IsNone(KwField.choices) /\ IsNone(KwField.default)
  /\ ~ReadOnlyCase(KwField) /\ IsNone(KwField.validation)
  /\ "validators" \in KwKeys /\ Len(Kw.validators) = 1

\* C9: the result holds exactly one of read_only and required; read_only (True)
\* is there exactly for a sequence field, a primary key or db_field '_id', and
\* then no required, default, allow_null, choices, bounds or validators key is.
C9_ReadOnlyXorRequired ==
  KwargsDone
    => /\ ("read_only" \in KwKeys) # ("required" \in KwKeys)
       /\ ("read_only" \in KwKeys) <=> ReadOnlyCase(KwField)
       /\ "read_only" \in KwKeys
            => /\ Kw.read_only = TRUE
               /\ KwKeys \cap ({"required", "default", "allow_null", "choices"}
                                 \cup BoundKeys) = {}

C9_Witness ==
  /\ KwargsDone /\ KwField.primary_key /\ TruthySeq(KwField.choices)
  /\ KwField.type = "StringField" /\ KwField.db_field # "_id"
  /\ TruthyNum(KwField.default) /\ KwField.null /\ KwField.unique
  /\ "read_only" \in KwKeys

(***************************************************************************)
(* _resolve_model                                                          *)
(***************************************************************************)
MaxStrLen == 4

Alphabet == {".", "A", "b"}

Strings == UNION {[1..n -> Alphabet] : n \in 0..MaxStrLen}

\* A class object; isdoc says whether it subclasses mongoengine.BaseDocument.
Class(n, d) == [kind |-> "class", name |-> n, isdoc |-> d]

RegNames == {<<"A">>, <<"b">>, <<"A", "b">>}

Registries == {[n \in S |-> Class(n, TRUE)] : S \in SUBSET RegNames}

Objects ==
  {[kind |-> "str", s |-> s] : s \in Strings}
    \cup {Class(<<"A">>, TRUE), Class(<<"Z">>, TRUE), Class(<<"A">>, FALSE)}
    \cup {[kind |-> "int"], [kind |-> "instance"]}

\* str.split('.')
RECURSIVE SplitDot(_)
SplitDot(s) ==
  IF s = <<>> THEN << <<>> >>
  ELSE LET rest == SplitDot(Tail(s))
       IN  IF Head(s) = "." THEN << <<>> >> \o rest
           ELSE << <<Head(s)>> \o rest[1] >> \o Tail(rest)

\* mongoengine.base.common.get_document as the code uses it: the registered
\* class, or None
get_document(name, reg) == IF name \in DOMAIN reg THEN Some(reg[name]) ELSE None

\* Any dotted string taken, whatever the number of its segments.
IsDottedPair_AnyDotted(obj) == obj.kind = "str" /\ len(SplitDot(obj.s)) >= 2

IsDottedPair(obj) == obj.kind = "str" /\ len(SplitDot(obj.s)) = 2

IsDocumentClass(obj) == obj.kind = "class" /\ obj.isdoc

_resolve_model(obj, reg) ==
  IF IsDottedPair(obj)
    THEN LET app_name == SplitDot(obj.s)[1]
             model_name == SplitDot(obj.s)[2]
             resolved_model == get_document(model_name, reg)
         IN  IF IsNone(resolved_model)
               THEN Raise("ImproperlyConfigured", <<app_name, model_name>>)
               ELSE Return(Val(resolved_model))
    ELSE IF IsDocumentClass(obj) THEN Return(obj)
    ELSE Raise("ValueError", obj)

InitResolve ==
  /\ pc = "call"
  /\ call \in [op : {"_resolve_model"}, obj : Objects]
  /\ ret = NoRet
  /\ registry \in Registries
  /\ heap = EmptyHeap
  /\ hist = <<>>
  /\ nmut = 0

ResolveModel ==
  /\ pc = "call"
  /\ call.op = "_resolve_model"
  /\ ret' = _resolve_model(call.obj, registry)
  /\ pc' = "done"
  /\ UNCHANGED <<call, registry, heap, hist, nmut>>

NextResolve == ResolveModel

SpecResolve == InitResolve /\ [][NextResolve]_vars

ResolveDone == pc = "done" /\ call.op = "_resolve_model"

\* Positions of the dots of a string.
DotsOf(s) == {i \in 1..Len(s) : s[i] = "."}

\* The text after the only dot of a two-part dotted string.
SecondSegment(s) ==
  LET d == CHOOSE i \in DotsOf(s) : TRUE IN SubSeq(s, d + 1, Len(s))

ResolveOutcome ==
  LET o == call.obj
      twoPart == o.kind = "str" /\ Cardinality(DotsOf(o.s)) = 1
  IN  IF twoPart /\ SecondSegment(o.s) \in DOMAIN registry
        THEN ret = Return(registry[SecondSegment(o.s)])
      ELSE IF twoPart
        THEN ret.kind = "raise" /\ ret.exc = "ImproperlyConfigured"
      ELSE IF o.kind = "class" /\ o.isdoc
        THEN ret = Return(o)
      ELSE ret.kind = "raise" /\ ret.exc = "ValueError"

EmptyOD == <<>>

ODKeys(od) == [i \in 1..Len(od) |-> od[i][1]]

ODKeySet(od) == {od[i][1] : i \in 1..Len(od)}

ODGet(od, k) == od[CHOOSE i \in 1..Len(od) : od[i][1] = k][2]

\* od[k] = v: an existing key keeps its position, a new key goes last.
ODSet(od, k, v) ==
  IF k \in ODKeySet(od)
    THEN [i \in 1..Len(od) |-> IF od[i][1] = k THEN <<k, v>> ELSE od[i]]
    ELSE Append(od, <<k, v>>)

\* od.update(other)
RECURSIVE ODUpdate(_, _)
ODUpdate(od, other) ==
  IF other = <<>> THEN od
  ELSE ODUpdate(ODSet(od, Head(other)[1], Head(other)[2]), Tail(other))

(***************************************************************************)
(* get_field_info and is_abstract_model                                    *)
(***************************************************************************)
MaxFields == 3

FieldNames == {"pk", "id", "a", "b"}

Range(q) == {q[i] : i \in 1..Len(q)}

\* Declared field names in declaration order: no name twice.
FieldOrders ==
  {q \in UNION {[1..n -> FieldNames] : n \in 0..MaxFields} :
     Cardinality(Range(q)) = Len(q)}

\* A field definition as get_field_info sees it.
FieldDef(n, refs) ==
  [name |-> n, type |-> IF n \in refs THEN "ReferenceField" ELSE "StringField"]

Metas == {None, Some(EmptyDict), Some([abstract |-> TRUE]), Some([abstract |-> FALSE])}

\* A document class: its own fields and, unless embedded, its id field.
Document(order, id, refs, meta) ==
  [kind |-> "class", embedded |-> FALSE,
   _fields |-> [n \in Range(order) \cup {id} |-> FieldDef(n, refs)],
   _fields_ordered |-> order, _meta |-> [id_field |-> id], meta |-> meta]

EmbeddedDocument(order, refs, meta) ==
  [kind |-> "class", embedded |-> TRUE,
   _fields |-> [n \in Range(order) |-> FieldDef(n, refs)],
   _fields_ordered |-> order, _meta |-> EmptyDict, meta |-> meta]

Models ==
  {Document(q, id, refs, m) :
     q \in FieldOrders, id \in FieldNames, refs \in SUBSET {"a", "id"}, m \in Metas}
    \cup {EmbeddedDocument(q, refs, m) :
            q \in FieldOrders, refs \in SUBSET {"a", "id"}, m \in Metas}

\* pk: None for an embedded document, else the id field's definition
PrimaryKey(model) ==
  IF model.embedded THEN None ELSE Some(model._fields[model._meta.id_field])

RECURSIVE FieldsOf(_, _)
FieldsOf(model, names) ==
  IF names = <<>> THEN EmptyOD
  ELSE ODSet(FieldsOf(model, SubSeq(names, 1, Len(names) - 1)),
             names[Len(names)], Some(model._fields[names[Len(names)]]))

\* Forward relations synthesized from the reference fields.
RECURSIVE ReferencesOf(_, _)
ReferencesOf(model, names) ==
  IF names = <<>> THEN EmptyOD
  ELSE LET n == names[Len(names)]
           rest == ReferencesOf(model, SubSeq(names, 1, Len(names) - 1))
       IN  IF model._fields[n].type = "ReferenceField"
             THEN ODSet(rest, n, Some(model._fields[n])) ELSE rest

ForwardRelations_FromReferences(model) == ReferencesOf(model, model._fields_ordered)

ForwardRelations(model) == EmptyOD

ReverseRelations(model) == EmptyOD

\* getattr(pk, 'name', 'pk')
PkName(pk) == IF IsNone(pk) THEN "pk" ELSE Val(pk).name

\* The pk stored under 'pk' only.
FieldsAndPk_NoOwnName(pk, fields) == ODUpdate(ODSet(EmptyOD, "pk", pk), fields)

FieldsAndPk(pk, fields) ==
  ODUpdate(ODSet(ODSet(EmptyOD, "pk", pk), PkName(pk), pk), fields)

get_field_info(model) ==
  LET pk == PrimaryKey(model)
      fields == FieldsOf(model, model._fields_ordered)
      forward_relations == ForwardRelations(model)
      reverse_relations == ReverseRelations(model)
      fields_and_pk == FieldsAndPk(pk, fields)
      relations == forward_relations \o reverse_relations
  IN  [pk |-> pk, fields |-> fields, forward_relations |-> forward_relations,
       reverse_relations |-> reverse_relations, fields_and_pk |-> fields_and_pk,
       relations |-> relations]

\* hasattr(model, 'meta') and model.meta.get('abstract', False)
is_abstract_model(model) ==
  IF IsNone(model.meta) THEN FALSE
  ELSE IF "abstract" \in DOMAIN Val(model.meta) THEN Val(model.meta).abstract
  ELSE FALSE

InitInfo ==
  /\ pc = "call"
  /\ call \in [op : {"get_field_info", "is_abstract_model"}, model : Models]
  /\ ret = NoRet
  /\ registry = EmptyDict
  /\ heap = EmptyHeap
  /\ hist = <<>>
  /\ nmut = 0

GetFieldInfo ==
  /\ pc = "call"
  /\ call.op = "get_field_info"
  /\ ret' = Return(get_field_info(call.model))
  /\ pc' = "done"
  /\ UNCHANGED <<call, registry, heap, hist, nmut>>

IsAbstractModel ==
  /\ pc = "call"
  /\ call.op = "is_abstract_model"
  /\ ret' = Return(is_abstract_model(call.model))
  /\ pc' = "done"
  /\ UNCHANGED <<call, registry, heap, hist, nmut>>

NextInfo == GetFieldInfo \/ IsAbstractModel

SpecInfo == InitInfo /\ [][NextInfo]_vars

InfoDone == pc = "done" /\ call.op = "get_field_info"

Info == ret.value

DeclaredNames == Range(call.model._fields_ordered)

NumDeclared == Len(call.model._fields_ordered)

FieldsInDeclarationOrder ==
  /\ Len(Info.fields) = NumDeclared
  /\ \A i \in 1..NumDeclared :
       Info.fields[i] =
         <<call.model._fields_ordered[i],
           Some(call.model._fields[call.model._fields_ordered[i]])>>

C8_NoRelations ==
  InfoDone
    => /\ Info.forward_relations = EmptyOD
       /\ Info.reverse_relations = EmptyOD
       /\ Info.relations = EmptyOD

C8_Witness ==
  /\ InfoDone /\ ~call.model.embedded
  /\ \E n \in DeclaredNames : call.model._fields[n].type = "ReferenceField"
  /\ Info.relations = EmptyOD

(***************************************************************************)
(* Sequences of calls over one set of model classes, with the containers   *)
(* the calls build and the containers the model owns kept on a heap of     *)
(* objects, so that two references to the same list can be told from two   *)
(* equal lists.  A heap object is [type, items]; a reference is [ref].     *)
(***************************************************************************)
MaxCalls == 3

MaxMutations == 2

Ref(id) == [ref |-> id]

Obj(t, items) == [type |-> t, items |-> items]

\* The choices list of the field 'tag' is object 1 of the heap.
TagChoicesId == 1

InitHeap == [id \in {TagChoicesId} |-> Obj("choices", <<"x", "y">>)]

PlainField(t) ==
  [type |-> t, primary_key |-> FALSE, db_field |-> "f", required |-> TRUE,
   default |-> None, null |-> FALSE, choices |-> None, max_length |-> None,
   min_length |-> None, max_value |-> None, min_value |-> None,
   unique |-> FALSE, validation |-> None, verbose_name |-> None,
   help_text |-> None, precision |-> 0, model |-> "Doc"]

\* The fields of the document class: attributes, and the heap object that is
\* the field's choices list (0: the field declares no choices).
WorldFields ==
  [tag  |-> [name |-> <<"t", "a", "g">>, attrs |-> PlainField("StringField"),
             choices_id |-> TagChoicesId],
   code |-> [name |-> <<"c", "o", "d", "e">>,
             attrs |-> [PlainField("StringField") EXCEPT
                          !.unique = TRUE, !.validation = Some(Validation),
                          !.max_length = Some(3)],
             choices_id |-> 0],
   num  |-> [name |-> <<"n", "u", "m">>,
             attrs |-> [PlainField("DecimalField") EXCEPT
                          !.precision = 2, !.max_value = Some(999),
                          !.default = Some(5)],
             choices_id |-> 0]]

WorldFieldNames == {"tag", "code", "num"}

\* The field definition as the code reads it in heap h.
FieldView(h, fobj) ==
  IF fobj.choices_id = 0 THEN fobj.attrs
  ELSE [fobj.attrs EXCEPT !.choices = Some(h[fobj.choices_id].items)]

WorldModel == Document(<<"id", "a">>, "id", {"a"}, Some([abstract |-> TRUE]))

WorldRegistry == [n \in {<<"b">>} |-> Class(<<"b">>, TRUE)]

WorldObjects == {[kind |-> "str", s |-> <<"A", ".", "b">>],
                 [kind |-> "str", s |-> <<"A", ".", "A">>],
                 Class(<<"Z">>, FALSE)}

\* A new object gets the next unused identity.
NewId(h) == Cardinality(DOMAIN h) + 1

Alloc(h, id, t, items) ==
  [x \in (DOMAIN h) \cup {id} |-> IF x = id THEN Obj(t, items) ELSE h[x]]

\* One list kept between calls instead of a new one per call.
SharedValidatorList(h) ==
  IF \E id \in DOMAIN h : h[id].type = "validators"
    THEN [id |-> CHOOSE id \in DOMAIN h : h[id].type = "validators", heap |-> h]
    ELSE [id |-> NewId(h), heap |-> Alloc(h, NewId(h), "validators", <<>>)]

\* validator_kwarg = []: a new list on every call
NewValidatorList(h) ==
  [id |-> NewId(h), heap |-> Alloc(h, NewId(h), "validators", <<>>)]

\* kwargs as stored: choices is the field's own list, validators the list
\* built by this call, every other value is immutable.
StoredKwargs(kw, fobj, validators_id) ==
  [k \in DOMAIN kw |->
     IF k = "choices" THEN Ref(fobj.choices_id)
     ELSE IF k = "validators" THEN Ref(validators_id)
     ELSE kw[k]]

\* get_field_kwargs on the heap: the new heap and the returned reference.
HeapGetFieldKwargs(h, field_name, fobj) ==
  LET f == FieldView(h, fobj)
      kwargs_id == NewId(h)
      h1 == Alloc(h, kwargs_id, "kwargs", EmptyDict)
      vl == NewValidatorList(h1)
      h2 == [vl.heap EXCEPT ![vl.id].items = @ \o FinalValidators(f)]
      kw == get_field_kwargs(field_name, f)
  IN  [heap |-> [h2 EXCEPT ![kwargs_id].items = StoredKwargs(kw, fobj, vl.id)],
       root |-> Ref(kwargs_id),
       made |-> {kwargs_id, vl.id}]

\* get_field_info on the heap: five new OrderedDicts and the record that
\* refers to them.
HeapGetFieldInfo(h, model) ==
  LET info == get_field_info(model)
      n == NewId(h)
      h1 == Alloc(h, n, "odict", info.fields)
      h2 == Alloc(h1, n + 1, "odict", info.forward_relations)
      h3 == Alloc(h2, n + 2, "odict", info.reverse_relations)
      h4 == Alloc(h3, n + 3, "odict", info.fields_and_pk)
      h5 == Alloc(h4, n + 4, "odict", info.relations)
  IN  [heap |-> h5,
       root |-> [pk |-> info.pk, fields |-> Ref(n), forward_relations |-> Ref(n + 1),
                 reverse_relations |-> Ref(n + 2), fields_and_pk |-> Ref(n + 3),
                 relations |-> Ref(n + 4)],
       made |-> n..(n + 4)]

\* The mutable containers reachable from a returned value.
Reach(h, c, root) ==
  IF c.op = "get_field_kwargs"
    THEN {root.ref} \cup {h[root.ref].items[k].ref :
                            k \in (DOMAIN h[root.ref].items) \cap {"choices", "validators"}}
  ELSE IF c.op = "get_field_info"
    THEN {root.fields.ref, root.forward_relations.ref, root.reverse_relations.ref,
          root.fields_and_pk.ref, root.relations.ref}
  ELSE {}

\* The returned value with every reference replaced by what it refers to.
Deep(h, c, root) ==
  IF c.op = "get_field_kwargs"
    THEN [k \in DOMAIN h[root.ref].items |->
            IF k \in {"choices", "validators"}
              THEN h[h[root.ref].items[k].ref].items
              ELSE h[root.ref].items[k]]
  ELSE IF c.op = "get_field_info"
    THEN [pk |-> root.pk, fields |-> h[root.fields.ref].items,
          forward_relations |-> h[root.forward_relations.ref].items,
          reverse_relations |-> h[root.reverse_relations.ref].items,
          fields_and_pk |-> h[root.fields_and_pk.ref].items,
          relations |-> h[root.relations.ref].items]
  ELSE root

\* What the model owns: the registry and the fields' choices lists.
World(h, reg) == [registry |-> reg, choices |-> h[TagChoicesId].items]

Entry(c, h, out, root, made) ==
  [call |-> c, root |-> root, made |-> made, old |-> DOMAIN h, nmut |-> nmut,
   value |-> Deep(out, c, root),
   before |-> World(h, registry), after |-> World(out, registry)]

Init ==
  /\ pc = "idle"
  /\ call = [op |-> "none"]
  /\ ret = NoRet
  /\ registry = WorldRegistry
  /\ heap = InitHeap
  /\ hist = <<>>
  /\ nmut = 0

CallGetFieldKwargs ==
  /\ Len(hist) < MaxCalls
  /\ \E n \in WorldFieldNames :
       LET c == [op |-> "get_field_kwargs", field_name |-> n]
           r == HeapGetFieldKwargs(heap, WorldFields[n].name, WorldFields[n])
       IN  /\ call' = c
           /\ heap' = r.heap
           /\ ret' = Return(r.root)
           /\ hist' = Append(hist, Entry(c, heap, r.heap, r.root, r.made))
  /\ UNCHANGED <<pc, registry, nmut>>

CallGetFieldInfo ==
  /\ Len(hist) < MaxCalls
  /\ LET c == [op |-> "get_field_info"]
         r == HeapGetFieldInfo(heap, WorldModel)
     IN  /\ call' = c
         /\ heap' = r.heap
         /\ ret' = Return(r.root)
         /\ hist' = Append(hist, Entry(c, heap, r.heap, r.root, r.made))
  /\ UNCHANGED <<pc, registry, nmut>>

CallIsAbstractModel ==
  /\ Len(hist) < MaxCalls
  /\ LET c == [op |-> "is_abstract_model"]
         v == is_abstract_model(WorldModel)
     IN  /\ call' = c
         /\ ret' = Return(v)
         /\ hist' = Append(hist, Entry(c, heap, heap, v, {}))
  /\ UNCHANGED <<pc, registry, heap, nmut>>

CallResolveModel ==
  /\ Len(hist) < MaxCalls
  /\ \E o \in WorldObjects :
       LET c == [op |-> "_resolve_model", obj |-> o]
           v == _resolve_model(o, registry)
       IN  /\ call' = c
           /\ ret' = v
           /\ hist' = Append(hist, Entry(c, heap, heap, v, {}))
  /\ UNCHANGED <<pc, registry, heap, nmut>>

\* The caller changes a container it reached through a returned value.
MutatedItems(o) ==
  CASE o.type = "choices" -> Append(o.items, "m")
    [] o.type = "validators" -> Append(o.items, [kind |-> "m"])
    [] o.type = "kwargs" -> Put(o.items, "m", TRUE)
    [] o.type = "odict" -> Append(o.items, <<"m", None>>)

MutateResult ==
  /\ nmut < MaxMutations
  /\ \E i \in 1..Len(hist) :
       \E id \in Reach(heap, hist[i].call, hist[i].root) :
         heap' = [heap EXCEPT ![id].items = MutatedItems(heap[id])]
  /\ nmut' = nmut + 1
  /\ UNCHANGED <<pc, call, ret, registry, hist>>

Next ==
  \/ CallGetFieldKwargs
  \/ CallGetFieldInfo
  \/ CallIsAbstractModel
  \/ CallResolveModel
  \/ MutateResult

Spec == Init /\ [][Next]_vars

(***************************************************************************)
(* Properties of sequences of calls.                                       *)
(***************************************************************************)
Calls == 1..Len(hist)

ReachOf(i) == Reach(heap, hist[i].call, hist[i].root)

CallsLeaveModelUnchanged == \A i \in Calls : hist[i].before = hist[i].after

\* C10 as stated: calls leave the model classes, field definitions and registry
\* unchanged, no result shares a mutable container with an earlier result, and
\* a repeated call returns an equal result whatever was called or mutated in
\* between.
C10_FreshResultsOriginal ==
  /\ CallsLeaveModelUnchanged
  /\ \A i, j \in Calls : i < j => ReachOf(i) \cap ReachOf(j) = {}
  /\ \A i, j \in Calls : hist[i].call = hist[j].call => hist[i].value = hist[j].value

\* C10 amended: calls leave the model classes, field definitions and registry
\* unchanged; the containers a call builds (descriptor mappings, kwargs mapping,
\* validators list) are new objects, so two results share nothing but the
\* field's own choices list; a repeated call returns an equal result whenever
\* the model's own objects are as they were, whatever was called and whichever
\* built containers were mutated in between.
C10_FreshResults ==
  /\ CallsLeaveModelUnchanged
  /\ \A i \in Calls : hist[i].made \cap hist[i].old = {}
  /\ \A i, j \in Calls : i < j => ReachOf(i) \cap ReachOf(j) \subseteq {TagChoicesId}
  /\ \A i, j \in Calls :
       (hist[i].call = hist[j].call /\ hist[i].before = hist[j].before)
         => hist[i].value = hist[j].value

C10_Witness ==
  /\ Len(hist) = 3
  /\ hist[1].call = hist[3].call
  /\ hist[1].call.op = "get_field_kwargs" /\ hist[1].call.field_name = "code"
  /\ hist[2].call.op = "get_field_info"
  /\ hist[3].nmut > hist[1].nmut
  /\ Len(heap[heap[hist[1].root.ref].items.validators.ref].items) = 3
  /\ Len(hist[3].value.validators) = 2
  /\ hist[1].value = hist[3].value

====
